---- MODULE Spec2Model ----
(***************************************************************************)
(* A model of the Knora frontend: the retrying API service (lib/api.ts),   *)
(* the persisted zustand store (lib/store.ts), the query tab               *)
(* (IntelligentQueryTab.tsx) and the upload component                      *)
(* (FileUploadComponent.tsx).                                              *)
(***************************************************************************)
EXTENDS Integers, Sequences, FiniteSets, TLC

(***************************************************************************)
(* Errors of a request.  status = 0 stands for "no response";              *)
(* msg is error.response.data.message of an Axios error and error.message   *)
(* of any other error ("" when there is none).                             *)
(***************************************************************************)
AxiosErrMsg(code, status, msg) ==
  [axios |-> TRUE, code |-> code, status |-> status, msg |-> msg]

AxiosErr(code, status) == AxiosErrMsg(code, status, "")

NonAxiosErr == [axios |-> FALSE, code |-> "TypeError", status |-> 0, msg |-> "x is undefined"]

NoError == [axios |-> FALSE, code |-> "none", status |-> 0, msg |-> ""]

\* a 2xx response, as an entry of a call's request log
OkResponse == [axios |-> FALSE, code |-> "ok", status |-> 200, msg |-> ""]

ErrTimeout == AxiosErr("ECONNABORTED", 0)

ErrNetwork == AxiosErr("ERR_NETWORK", 0)

TransientErrors ==
  { ErrTimeout, ErrNetwork,
    AxiosErr("ERR_BAD_RESPONSE", 500), AxiosErr("ERR_BAD_RESPONSE", 503),
    AxiosErr("ERR_BAD_REQUEST", 408), AxiosErr("ERR_BAD_REQUEST", 429) }

PermanentErrors ==
  { AxiosErr("ERR_BAD_REQUEST", 400), AxiosErr("ERR_BAD_REQUEST", 404),
    AxiosErr("ERR_BAD_REQUEST", 413), AxiosErr("ERR_CANCELED", 0),
    AxiosErrMsg("ERR_BAD_REQUEST", 422, "Query too long"), NonAxiosErr }

Errors == TransientErrors \cup PermanentErrors

(* The classification the retry policy is meant to implement: timeout,     *)
(* network error, 5xx, 408, 429.                                           *)
IsTransient(e) ==
  /\ e.axios
  /\ \/ e.code \in {"ECONNABORTED", "ERR_NETWORK"}
     \/ e.status >= 500
     \/ e.status \in {408, 429}

(***************************************************************************)
(* lib/api.ts: DEFAULT_RETRY_CONFIG, shouldRetry, the retry loop           *)
(***************************************************************************)
maxRetries == 2

delayMs == 500

\* backoffMultiplier 1.5 as the fraction BackoffNum / BackoffDen
BackoffNum == 3

BackoffDen == 2

RECURSIVE Pow(_, _)
Pow(b, n) == IF n = 0 THEN 1 ELSE b * Pow(b, n - 1)

\* delayMs * Math.pow(backoffMultiplier, attempt)
waitTime(attempt) == (delayMs * Pow(BackoffNum, attempt)) \div Pow(BackoffDen, attempt)

shouldRetryAny4xx(error, attemptNumber, maxR) ==
  IF attemptNumber >= maxR THEN FALSE
  ELSE IF ~error.axios THEN FALSE
  ELSE IF error.code = "ECONNABORTED" \/ error.code = "ERR_NETWORK" THEN TRUE
  ELSE error.status # 0 /\ error.status >= 400

shouldRetry(error, attemptNumber, maxR) ==
  IF attemptNumber >= maxR THEN FALSE
  ELSE IF ~error.axios THEN FALSE
  ELSE IF error.code = "ECONNABORTED" \/ error.code = "ERR_NETWORK" THEN TRUE
  ELSE IF error.status # 0 /\ error.status >= 500 THEN TRUE
  ELSE IF error.status = 408 \/ error.status = 429 THEN TRUE
  ELSE FALSE

(* One call of apiService.search / apiService.generateAnswer.              *)
(*   phase    "request": a POST is in flight; "delay": inside delay();     *)
(*            "resolved" / "rejected": the promise has settled             *)
(*   attempt  the loop variable                                            *)
(*   log      the outcome of every request issued so far, in order         *)
(*            (OkResponse or the error)                                    *)
(*   waits    the backoff delays awaited so far                            *)
(*   thrown   the error the call rejected with                             *)
NewCall(url) ==
  [url |-> url, phase |-> "request", attempt |-> 0, inflight |-> TRUE,
   lastError |-> NoError, thrown |-> NoError, log |-> <<>>, waits |-> <<>>]

IdleCall ==
  [url |-> "none", phase |-> "idle", attempt |-> 0, inflight |-> FALSE,
   lastError |-> NoError, thrown |-> NoError, log |-> <<>>, waits |-> <<>>]

\* the awaited POST resolved: return await apiClient.post(...)
CallSucceed(c) ==
  [c EXCEPT !.phase = "resolved", !.inflight = FALSE, !.log = Append(@, OkResponse)]

\* the awaited POST rejected: the catch block
CallFail(c, err) ==
  IF shouldRetry(err, c.attempt, maxRetries)
  THEN [c EXCEPT !.phase = "delay", !.inflight = FALSE, !.lastError = err,
                 !.log = Append(@, err),
                 !.waits = Append(@, waitTime(c.attempt))]
  ELSE [c EXCEPT !.phase = "rejected", !.inflight = FALSE, !.lastError = err,
                 !.thrown = err, !.log = Append(@, err)]

\* a loop that tests attempt <= maxRetries
CallDelayDoneOffByOne(c) ==
  IF c.attempt + 1 <= maxRetries
  THEN [c EXCEPT !.attempt = @ + 1, !.phase = "request", !.inflight = TRUE]
  ELSE [c EXCEPT !.attempt = @ + 1, !.phase = "rejected", !.thrown = c.lastError]

\* delay() resolved: continue; attempt++; loop test; throw lastError after it
CallDelayDone(c) ==
  IF c.attempt + 1 < maxRetries
  THEN [c EXCEPT !.attempt = @ + 1, !.phase = "request", !.inflight = TRUE]
  ELSE [c EXCEPT !.attempt = @ + 1, !.phase = "rejected", !.thrown = c.lastError]

CallSettled(c) == c.phase \in {"resolved", "rejected"}

\* lib/api.ts getErrorMessage (no APIError is ever constructed)
getErrorMessage(error) ==
  IF error.axios
  THEN IF error.code = "ECONNABORTED"
         THEN "Request timeout - backend is not responding"
       ELSE IF error.code = "ERR_NETWORK" \/ error.status = 0
         THEN "Network error - check your connection and backend status"
       ELSE IF error.msg # "" THEN error.msg
       ELSE CASE error.status = 400 -> "Invalid request - check your input"
              [] error.status = 404 -> "Resource not found"
              [] error.status = 408 -> "Request timeout"
              [] error.status = 413 -> "File too large"
              [] error.status = 429 -> "Too many requests - please wait"
              [] error.status = 500 -> "Server error - please try again later"
              [] error.status = 503 -> "Server is unavailable - please try again later"
              [] OTHER -> "Unknown error occurred"
  ELSE IF error.msg # "" THEN error.msg ELSE "Unknown error occurred"

(***************************************************************************)
(* lib/store.ts: the zustand store with the persist middleware             *)
(***************************************************************************)
\* Text is a sequence of characters; an answer or a message is null or text.
Null == [null |-> TRUE, text |-> <<>>]

Str(parts) == [null |-> FALSE, text |-> parts]

\* JavaScript truthiness of a string | null
Truthy(v) == ~v.null /\ v.text # <<>>

\* numbers with a fraction are held in hundredths (0.7 is 70)
InitialStore ==
  [activeTab |-> "query",
   error |-> Null,
   documents |-> <<>>,
   searchResults |-> <<>>,
   currentQuery |-> <<>>,
   currentAnswer |-> Null,
   stats |-> "null",
   chunkSize |-> 1000,
   chunkOverlap |-> 200,
   searchK |-> 5,
   scoreThreshold |-> 0,
   temperature |-> 70,
   maxTokens |-> 2048,
   selectedModel |-> "mixtral-8x7b-32768",
   backendConnected |-> FALSE,
   isSearching |-> FALSE]

PersistedKeys ==
  {"activeTab", "chunkSize", "chunkOverlap", "searchK", "scoreThreshold",
   "temperature", "maxTokens", "selectedModel"}

\* a snapshot that also keeps the query text
partializeWithQuery(state) ==
  [k \in PersistedKeys \cup {"currentQuery"} |-> state[k]]

\* persist's partialize option
partialize(state) == [k \in PersistedKeys |-> state[k]]

\* localStorage["knora-store"]: absent, or the snapshot persist wrote
NoSnapshot == [present |-> FALSE, state |-> partialize(InitialStore)]

Snapshot(state) == [present |-> TRUE, state |-> partialize(state)]

\* rehydration: the initial state with the snapshot's keys laid over it
Rehydrate(snap) ==
  IF snap.present
  THEN [k \in DOMAIN InitialStore |->
          IF k \in DOMAIN snap.state THEN snap.state[k] ELSE InitialStore[k]]
  ELSE InitialStore
(***************************************************************************)
(* IntelligentQueryTab.tsx                                                 *)
(***************************************************************************)
Whitespace == {" ", "\n", "\t"}

RECURSIVE trimStart(_)
trimStart(s) ==
  IF s = <<>> THEN s
  ELSE IF Head(s) \in Whitespace THEN trimStart(Tail(s)) ELSE s

RECURSIVE trimEnd(_)
trimEnd(s) ==
  IF s = <<>> THEN s
  ELSE IF s[Len(s)] \in Whitespace THEN trimEnd(SubSeq(s, 1, Len(s) - 1)) ELSE s

\* String.prototype.trim
trim(s) == trimEnd(trimStart(s))

\* a check that forgets to trim
queryIsBlankNoTrim(q) == q = <<>>

\* !currentQuery.trim()
queryIsBlank(q) == trim(q) = <<>>

\* the messages setError receives, as the parts of the template string
MsgNoDocuments == Str(<<"No relevant documents found for this query">>)

MsgSearchFailed(err) == Str(<<"Search failed:", " ", getErrorMessage(err)>>)

MsgAnswerEmpty == Str(<<"Failed to generate answer", " - empty response">>)

MsgAnswerFailed(err) == Str(<<"Failed to generate answer", ": ", getErrorMessage(err)>>)

\* setError for an empty result list that reuses the generation message
emptyResultsErrorAsGeneration == MsgAnswerEmpty

\* handleSearch, results.length === 0: setError(...)
emptyResultsError == MsgNoDocuments

\* searchResponse.data.results || []
resultsOrEmpty(r) == IF r.null THEN <<>> ELSE r.list

\* a guard that lets an empty list through to generateAnswer
noResultsNever(results) == FALSE

\* results.length === 0
noResults(results) == Len(results) = 0

\* a finally block without the abort check
finallyClearsAlways(aborted) == TRUE

\* finally { if (!controller.signal.aborted) ... }
finallyClears(aborted) == ~aborted

\* a submit that keeps the old result list
clearSearchResultsKeeps(state) == state

\* store.clearSearchResults
clearSearchResults(state) == [state EXCEPT !.searchResults = <<>>]

\* answerResponse.data.sources -> the names shown under the answer
sourceName(s) ==
  IF s.isString THEN s.str
  ELSE IF s.file_name # "" THEN s.file_name
  ELSE s.source

RECURSIVE sourceDocsOf(_)
sourceDocsOf(list) ==
  IF list = <<>> THEN <<>>
  ELSE LET n == sourceName(Head(list))
       IN  IF n = "" THEN sourceDocsOf(Tail(list))
           ELSE <<n>> \o sourceDocsOf(Tail(list))

sourceDocs(sources) ==
  IF sources.kind = "array" THEN sourceDocsOf(sources.list) ELSE <<>>

(***************************************************************************)
(* FileUploadComponent.tsx                                                 *)
(***************************************************************************)
DEFAULT_FORMATS ==
  <<".pdf", ".txt", ".docx", ".doc", ".csv", ".xlsx", ".xls", ".md", ".pptx", ".json">>

maxSizeMB == 100

\* String.prototype.toLowerCase on the strings that occur as extensions
toLowerCase(str) ==
  CASE str = "PDF" -> "pdf"
    [] str = "TXT" -> "txt"
    [] str = ".PDF" -> ".pdf"
    [] str = ".Html" -> ".html"
    [] OTHER -> str

\* A File: its name as the pieces between the dots, and its size in bytes.
\* "." + file.name.split(".").pop()?.toLowerCase()
extensionOf(file) == "." \o toLowerCase(file.name[Len(file.name)])

\* a limit that also turns away a file of exactly the limit
withinSizeLimitStrict(file) == file.size < maxSizeMB * 1024 * 1024

\* !(file.size > maxSizeMB * 1024 * 1024)
withinSizeLimit(file) == ~(file.size > maxSizeMB * 1024 * 1024)

\* supportedFormats.some((fmt) => fmt.extension.toLowerCase() === extension.toLowerCase())
isSupported(file, formats) ==
  \E i \in 1..Len(formats) :
    toLowerCase(formats[i]) = toLowerCase(extensionOf(file))

\* validateFile, with the supportedFormats its closure sees
validateFile(file, formats) ==
  IF ~withinSizeLimit(file) THEN FALSE
  ELSE IF ~isSupported(file, formats) THEN FALSE
  ELSE TRUE

(***************************************************************************)
(* Bounds and inputs                                                       *)
(***************************************************************************)
\* searches submitted in one behaviour
MaxSearches == 2

\* the lengths of the result lists a /search response carries
ResultCounts == {0, 2}

Tabs == {"ingestion", "query", "analytics"}

\* the tabs the query tab's behaviours move between
NavTargets == {"query", "analytics"}

Queries == { <<>>, <<" ", "\n">>, <<" ", "a", " ">> }

\* the errors the query tab's requests fail with
TabErrors == { ErrTimeout, AxiosErr("ERR_BAD_REQUEST", 400) }

\* a SearchResult of the search sid
Result(sid, i) == [sid |-> sid, chunk_id |-> i]

NullResults == [null |-> TRUE, list |-> <<>>]

\* response.data.results of a /search response to the search sid
SearchResponses(sid) ==
  {NullResults} \cup
  { [null |-> FALSE, list |-> [i \in 1..n |-> Result(sid, i)]] : n \in ResultCounts }

StrSource(s) == [isString |-> TRUE, str |-> s, file_name |-> "", source |-> ""]

ObjSource(f, s) == [isString |-> FALSE, str |-> "", file_name |-> f, source |-> s]

SourcesInputs ==
  { [kind |-> "null", list |-> <<>>],
    [kind |-> "object", list |-> <<>>],
    [kind |-> "array",
     list |-> <<StrSource("a.pdf"), ObjSource("b.txt", "x"), ObjSource("", "c.md"),
                ObjSource("", ""), StrSource("")>>] }

AnswerText(sid) == Str(<<"answer to search ", ToString(sid)>>)

\* response.data of a /llm/answer response to the search sid
AnswerResponses(sid) ==
  { [answer |-> a, sources |-> s] :
      a \in {Null, Str(<<>>), AnswerText(sid)}, s \in SourcesInputs }

(***************************************************************************)
(* State                                                                   *)
(***************************************************************************)
VARIABLES
  call,            \* SpecRetry: the one apiService call under observation
  store,           \* the zustand store
  localStorage,    \* localStorage["knora-store"]
  abortController, \* IntelligentQueryTab state: 0 (null) or the search it belongs to
  queryError,      \* IntelligentQueryTab state: error
  answerSources,   \* IntelligentQueryTab state
  searches,        \* every handleSearch invocation that passed validation
  toast,           \* the last toast shown
  reloads,         \* SpecStore: page loads after the first one
  supportedFormats,\* FileUploadComponent state
  formatsLoading,  \* loadFormats is awaiting /documents/formats
  files,           \* FileUploadComponent state: the upload queue
  isUploading,     \* FileUploadComponent state
  selected,        \* every File handed to handleFilesSelected, in order, with the
                   \* formats its validation read and the supportedFormats state
  batches,         \* the uploadFiles invocations still running
  requested,       \* the files a POST /documents/upload was issued for
  uploadLog,       \* the settled POST /documents/upload requests: file and outcome
  timers,          \* every progressInterval uploadFiles has set: file and running
  retryLog,        \* every Retry click: the file clicked and the file uploaded
  dragCounter,     \* FileUploadComponent: dragCounter.current
  isDragActive,    \* FileUploadComponent state
  dragDepth,       \* the elements of the drop zone the dragged pointer is inside
  checks,          \* every checkBackendHealth invocation of AppContent
  mobileMenuOpen,  \* Navigation state
  history,         \* the browser's session history: the tab parameter of each entry
  position,        \* the current entry of history
  navEvent,        \* the last event Navigation handled
  deletes,         \* every handleDelete invocation of DocumentIngestionTab
  analytics,       \* KnowledgeAnalyticsTab state
  cleanups         \* every handleCleanupOldFiles invocation

vars ==
  <<call, store, localStorage, abortController, queryError, answerSources,
    searches, toast, reloads, supportedFormats, formatsLoading, files,
    isUploading, selected, batches, requested, uploadLog, timers, retryLog,
    dragCounter, isDragActive, dragDepth,
    checks,
    mobileMenuOpen, history, position, navEvent, deletes, analytics, cleanups>>

dragVars == <<dragCounter, isDragActive, dragDepth>>

uploadVars ==
  <<supportedFormats, formatsLoading, files, isUploading, selected, batches, requested,
    uploadLog, timers, retryLog, dragVars>>

tabVars == <<abortController, queryError, answerSources, searches, toast>>

healthVars == <<checks>>

\* the state of the components added after the first four specifications
navVars == <<mobileMenuOpen, history, position, navEvent>>

docVars == <<deletes>>

analyticsVars == <<analytics, cleanups>>

restVars == <<healthVars, navVars, docVars, analyticsVars>>

\* what the query tab's handlers have no access to
outsideTab == <<call, reloads, uploadVars, restVars>>

\* what a call of apiService does not touch by itself
outsideRetry == <<store, localStorage, tabVars, reloads, uploadVars, restVars>>

\* checkBackendHealth as called by the effect whose closure holds
\* backendConnected = connected; live is that effect's isMounted
NewCheck(connected) == [connected |-> connected, live |-> TRUE, pc |-> "pending"]

\* "Check immediately" of the first render: backendConnected is not persisted
FirstCheck == NewCheck(FALSE)

\* the useState initial values of KnowledgeAnalyticsTab; storageInfo is
\* "null", "empty" (total_files = 0) or "files"
FreshAnalytics ==
  [stats |-> "null", storageInfo |-> "null", isLoading |-> TRUE, isCleaningUp |-> FALSE]

\* AppContent renders <IntelligentQueryTab /> only without a store error
\* and with activeTab === "query"
TabMounted(state) == state.activeTab = "query" /\ ~Truthy(state.error)

Init ==
  /\ call = IdleCall
  /\ store = InitialStore
  /\ localStorage = NoSnapshot
  /\ abortController = 0
  /\ queryError = Null
  /\ answerSources = <<>>
  /\ searches = <<>>
  /\ toast = ""
  /\ reloads = 0
  /\ supportedFormats = DEFAULT_FORMATS
  /\ formatsLoading = TRUE
  /\ files = <<>>
  /\ isUploading = FALSE
  /\ selected = <<>>
  /\ batches = {}
  /\ requested = {}
  /\ uploadLog = <<>>
  /\ timers = <<>>
  /\ retryLog = <<>>
  /\ dragCounter = 0
  /\ isDragActive = FALSE
  /\ dragDepth = 0
  /\ checks = <<FirstCheck>>
  /\ mobileMenuOpen = FALSE
  /\ history = <<"none">>
  /\ position = 1
  /\ navEvent = "none"
  /\ deletes = <<>>
  /\ analytics = FreshAnalytics
  /\ cleanups = <<>>

\* every set() of the store goes through persist, which writes the snapshot
Commit(state) ==
  /\ store' = state
  /\ localStorage' = Snapshot(state)

(***************************************************************************)
(* SpecRetry: one call of apiService.search / apiService.generateAnswer    *)
(***************************************************************************)
RetryUrls == {"/search", "/llm/answer"}

\* apiService.search(data) / apiService.generateAnswer(data) is called
ApiCall ==
  /\ call.phase = "idle" \/ CallSettled(call)
  /\ \E url \in RetryUrls : call' = NewCall(url)
  /\ UNCHANGED outsideRetry

ApiRequestOk ==
  /\ call.phase = "request"
  /\ call' = CallSucceed(call)
  /\ UNCHANGED outsideRetry

ApiRequestFails ==
  /\ call.phase = "request"
  /\ \E err \in Errors : call' = CallFail(call, err)
  /\ UNCHANGED outsideRetry

ApiDelayElapses ==
  /\ call.phase = "delay"
  /\ call' = CallDelayDone(call)
  /\ UNCHANGED outsideRetry

NextRetry == ApiCall \/ ApiRequestOk \/ ApiRequestFails \/ ApiDelayElapses

SpecRetry == Init /\ [][NextRetry]_vars

(***************************************************************************)
(* SpecTab: IntelligentQueryTab                                            *)
(*                                                                         *)
(* A search is one invocation of handleSearch that passed validation:      *)
(*   aborted   controller.signal.aborted                                   *)
(*   stale     the component instance that ran it has unmounted, so its    *)
(*             useState setters no longer do anything                      *)
(*   pc        "search": awaiting apiService.search; "answer": awaiting    *)
(*             apiService.generateAnswer; "done": the handler returned     *)
(*   call      the apiService call being awaited                           *)
(*   chunks    retrieved_chunks passed to generateAnswer                   *)
(*   outcome   what the awaited calls came to when the handler returned    *)
(***************************************************************************)
NewSearch(q) ==
  [query |-> q, aborted |-> FALSE, stale |-> FALSE, pc |-> "search",
   call |-> NewCall("/search"), chunks |-> <<>>, outcome |-> "pending"]

\* The end of handleSearch for the search sid: the handler has written the
\* store state st (wrote: it called a store setter), the error qe and the
\* sources srcs; then the finally block runs, and when it clears the stored
\* controller the effect cleanup of [abortController] aborts that controller.
Settle(sid, outcome, wrote, st, qe, srcs, t) ==
  LET s == searches[sid]
      clears == finallyClears(s.aborted)
      st2 == IF clears THEN [st EXCEPT !.isSearching = FALSE] ELSE st
      s2 == [s EXCEPT !.pc = "done", !.call = IdleCall, !.chunks = <<>>,
                      !.outcome = outcome]
  IN  /\ IF wrote \/ clears THEN Commit(st2) ELSE UNCHANGED <<store, localStorage>>
      /\ abortController' = IF clears /\ ~s.stale THEN 0 ELSE abortController
      /\ queryError' = IF s.stale THEN queryError ELSE qe
      /\ answerSources' = IF s.stale THEN answerSources ELSE srcs
      /\ toast' = t
      /\ searches' =
           [i \in DOMAIN searches |->
              LET base == IF i = sid THEN s2 ELSE searches[i]
              IN  IF clears /\ ~s.stale /\ i = abortController
                  THEN [base EXCEPT !.aborted = TRUE] ELSE base]

\* await apiService.search(...) resolved
OnSearchResolved(sid, resp) ==
  LET s == searches[sid]
      results == resultsOrEmpty(resp)
  IN  IF s.aborted
      THEN Settle(sid, "search_discarded", FALSE, store, queryError, answerSources, toast)
      ELSE IF noResults(results)
      THEN Settle(sid, "empty", TRUE,
                  [store EXCEPT !.currentAnswer = Str(<<>>), !.searchResults = <<>>,
                                !.isSearching = FALSE],
                  emptyResultsError, answerSources, toast)
      ELSE /\ Commit([store EXCEPT !.searchResults = results])
           /\ searches' = [searches EXCEPT ![sid] =
                 [s EXCEPT !.pc = "answer", !.call = NewCall("/llm/answer"),
                           !.chunks = results]]
           /\ UNCHANGED <<abortController, queryError, answerSources, toast>>

\* catch (searchErr)
OnSearchRejected(sid, err) ==
  IF searches[sid].aborted
  THEN Settle(sid, "search_discarded", FALSE, store, queryError, answerSources, toast)
  ELSE Settle(sid, "search_failed", TRUE,
              [store EXCEPT !.currentAnswer = Str(<<>>), !.searchResults = <<>>],
              MsgSearchFailed(err), answerSources, toast)

\* await apiService.generateAnswer(...) resolved
OnAnswerResolved(sid, resp) ==
  IF searches[sid].aborted
  THEN Settle(sid, "answer_discarded", FALSE, store, queryError, answerSources, toast)
  ELSE IF Truthy(resp.answer)
  THEN Settle(sid, "answered", TRUE, [store EXCEPT !.currentAnswer = resp.answer],
              Null, sourceDocs(resp.sources), "Answer generated successfully")
  ELSE Settle(sid, "answer_empty", TRUE, [store EXCEPT !.currentAnswer = Str(<<>>)],
              MsgAnswerEmpty, answerSources, toast)

\* catch (answerErr): no look at controller.signal.aborted
OnAnswerRejected(sid, err) ==
  Settle(sid, "answer_failed", TRUE, [store EXCEPT !.currentAnswer = Str(<<>>)],
         MsgAnswerFailed(err), answerSources, toast)

OnRejected(sid, err) ==
  IF searches[sid].pc = "search" THEN OnSearchRejected(sid, err)
  ELSE OnAnswerRejected(sid, err)

\* the retry loop of the awaited call goes on: a delay, or the next POST
CallGoesOn(sid, c2) ==
  /\ searches' = [searches EXCEPT ![sid].call = c2]
  /\ UNCHANGED <<store, localStorage, abortController, queryError,
                     answerSources, toast>>

InFlight(sid) == searches[sid].pc # "done" /\ searches[sid].call.phase = "request"

\* controls that stay enabled during a search
formDisabledNever(state) == FALSE

\* disabled={isSearching} of the textarea, and the isSearching half of the
\* submit button's disabled={isSearching || !currentQuery.trim()}
formDisabled(state) == state.isSearching

\* <textarea onChange={(e) => setCurrentQuery(e.target.value)} disabled={isSearching}>
onQueryChange ==
  /\ TabMounted(store)
  /\ ~formDisabled(store)
  /\ \E q \in Queries :
       /\ q # store.currentQuery
       /\ Commit([store EXCEPT !.currentQuery = q])
  /\ UNCHANGED <<outsideTab, tabVars>>

\* The form is submitted.  isSearching disables the form's controls; the
\* handler makes its own check of the query text, which the form's submit
\* button doubles, so the handler is entered here with any query text.
handleSearch ==
  /\ TabMounted(store)
  /\ ~formDisabled(store)
  /\ IF queryIsBlank(store.currentQuery)
     THEN /\ toast' = "Please enter a query"
          /\ UNCHANGED <<store, localStorage, abortController, queryError,
                         answerSources, searches>>
     ELSE /\ Len(searches) < MaxSearches
          /\ queryError' = Null
          /\ answerSources' = <<>>
          /\ Commit([clearSearchResults(store) EXCEPT !.isSearching = TRUE])
          /\ abortController' = Len(searches) + 1
          /\ searches' =
               Append([i \in DOMAIN searches |->
                         IF i = abortController
                         THEN [searches[i] EXCEPT !.aborted = TRUE]
                         ELSE searches[i]],
                      NewSearch(store.currentQuery))
          /\ UNCHANGED toast
  /\ UNCHANGED outsideTab

\* the Cancel button, rendered while isSearching
handleCancelSearch ==
  /\ TabMounted(store)
  /\ store.isSearching
  /\ IF abortController # 0
     THEN /\ searches' = [searches EXCEPT ![abortController].aborted = TRUE]
          /\ abortController' = 0
          /\ Commit([store EXCEPT !.isSearching = FALSE])
          /\ toast' = "Search cancelled"
     ELSE UNCHANGED <<searches, abortController, store, localStorage, toast>>
  /\ UNCHANGED <<outsideTab, queryError, answerSources>>

\* the Clear button
handleClear ==
  /\ TabMounted(store)
  /\ (Truthy(store.currentAnswer) \/ Len(store.searchResults) > 0) /\ ~store.isSearching
  /\ Commit([store EXCEPT !.currentQuery = <<>>, !.currentAnswer = Null,
                          !.searchResults = <<>>])
  /\ answerSources' = <<>>
  /\ queryError' = Null
  /\ UNCHANGED <<outsideTab, abortController, searches, toast>>

\* the error banner's dismiss button
DismissError ==
  /\ TabMounted(store)
  /\ Truthy(queryError)
  /\ queryError' = Null
  /\ UNCHANGED <<outsideTab, store, localStorage, abortController, answerSources,
                 searches, toast>>

\* Navigation: a tab click changes the URL, the URL sets store.activeTab.
\* Leaving the query tab unmounts IntelligentQueryTab: its cleanup aborts the
\* stored controller and its state is gone; coming back mounts a fresh one.
NavigateTab ==
  /\ \E t \in NavTargets :
       /\ t # store.activeTab
       /\ LET st == [store EXCEPT !.activeTab = t]
              unmounts == TabMounted(store) /\ ~TabMounted(st)
          IN  /\ Commit(st)
              /\ searches' =
                   [i \in DOMAIN searches |->
                      IF unmounts
                      THEN [searches[i] EXCEPT
                              !.stale = TRUE,
                              !.aborted = @ \/ (i = abortController)]
                      ELSE searches[i]]
              /\ abortController' = IF unmounts THEN 0 ELSE abortController
              /\ queryError' = IF unmounts THEN Null ELSE queryError
              /\ answerSources' = IF unmounts THEN <<>> ELSE answerSources
  /\ UNCHANGED <<outsideTab, toast>>

SearchRequestOk ==
  \E sid \in DOMAIN searches :
    /\ searches[sid].pc = "search"
    /\ InFlight(sid)
    /\ \E resp \in SearchResponses(sid) : OnSearchResolved(sid, resp)
    /\ UNCHANGED outsideTab

AnswerRequestOk ==
  \E sid \in DOMAIN searches :
    /\ searches[sid].pc = "answer"
    /\ InFlight(sid)
    /\ \E resp \in AnswerResponses(sid) : OnAnswerResolved(sid, resp)
    /\ UNCHANGED outsideTab

RequestFails ==
  \E sid \in DOMAIN searches :
    /\ InFlight(sid)
    /\ \E err \in TabErrors :
         LET c2 == CallFail(searches[sid].call, err)
         IN  IF c2.phase = "rejected" THEN OnRejected(sid, c2.thrown)
             ELSE CallGoesOn(sid, c2)
    /\ UNCHANGED outsideTab

DelayElapses ==
  \E sid \in DOMAIN searches :
    /\ searches[sid].pc # "done"
    /\ searches[sid].call.phase = "delay"
    /\ LET c2 == CallDelayDone(searches[sid].call)
       IN  IF c2.phase = "rejected" THEN OnRejected(sid, c2.thrown)
           ELSE CallGoesOn(sid, c2)
    /\ UNCHANGED outsideTab

NextTab ==
  \/ onQueryChange
  \/ handleSearch
  \/ handleCancelSearch
  \/ handleClear
  \/ DismissError
  \/ NavigateTab
  \/ SearchRequestOk
  \/ AnswerRequestOk
  \/ RequestFails
  \/ DelayElapses

SpecTab == Init /\ [][NextTab]_vars

(***************************************************************************)
(* Properties of the retry policy (SpecRetry)                              *)
(***************************************************************************)
IsFailure(r) == r # OkResponse

\* the i-th request of the call was followed by another request
FollowedByRequest(i) == i < Len(call.log) \/ (i = Len(call.log) /\ call.inflight)

\* C1: a failed request is followed by another request only when its error
\* is transient (timeout, network error, status >= 500, 408, 429); any other
\* failure is the call's last request and the call rejects with that very
\* error, after exactly one request when it is the first failure.
RetryOnlyTransient ==
  /\ \A i \in 1..Len(call.log) :
       FollowedByRequest(i) => IsTransient(call.log[i])
  /\ \A i \in 1..Len(call.log) :
       (IsFailure(call.log[i]) /\ ~IsTransient(call.log[i])) =>
         /\ i = Len(call.log)
         /\ ~call.inflight
         /\ call.phase = "rejected"
         /\ call.thrown = call.log[i]
  /\ (Len(call.log) >= 1 /\ IsFailure(call.log[1]) /\ ~IsTransient(call.log[1])) =>
       Len(call.log) = 1

\* a 404 came back on the first request and the call rejected with it
RetryOnlyTransientWitness ==
  /\ call.phase = "rejected"
  /\ call.log = <<AxiosErr("ERR_BAD_REQUEST", 404)>>
  /\ call.thrown = AxiosErr("ERR_BAD_REQUEST", 404)

RequestsIssued == Len(call.log) + (IF call.inflight THEN 1 ELSE 0)

Progresses(sid) == searches'[sid].call # searches[sid].call

\* what the user sees of a search
Shown ==
  <<store.searchResults, store.currentAnswer, answerSources, queryError,
    store.isSearching>>

\* C2: once a search has been cancelled (its controller aborted by
\* handleCancelSearch or by the unmount cleanup), no later completion of its
\* requests writes searchResults, currentAnswer, answerSources, the error
\* message or isSearching.
CancelledSearchWritesNothing ==
  [][\A sid \in DOMAIN searches :
       (searches[sid].aborted /\ Progresses(sid)) => Shown' = Shown]_vars

IsWhitespaceOnly(q) == \A i \in 1..Len(q) : q[i] \in Whitespace

\* C4: a query that is empty or only whitespace never becomes a search (no
\* /search and no /llm/answer request is issued for it), and the step that
\* turns it down leaves searchResults, currentAnswer, the error message and
\* isSearching as they were.
BlankQueryIssuesNothing ==
  /\ [](\A sid \in DOMAIN searches : ~IsWhitespaceOnly(searches[sid].query))
  /\ [][(toast' = "Please enter a query" /\ toast # toast') =>
          /\ IsWhitespaceOnly(store.currentQuery)
          /\ searches' = searches
          /\ Shown' = Shown]_vars

\* a whitespace-only query was submitted and turned down
BlankQueryIssuesNothingWitness ==
  /\ toast = "Please enter a query"
  /\ store.currentQuery = <<" ", "\n">>
  /\ searches = <<>>

\* C5: generateAnswer is called only when /search has resolved, unaborted,
\* with at least one result, and it is passed the very list stored in
\* searchResults; a search that fails, is cancelled before /search returns
\* or gets an empty list ends without any /llm/answer request.
AnswerOnlyAfterResults ==
  /\ [](\A sid \in DOMAIN searches :
          /\ searches[sid].call.url = "/llm/answer" => searches[sid].pc = "answer"
          /\ searches[sid].pc = "answer" => Len(searches[sid].chunks) >= 1)
  /\ [][\A sid \in DOMAIN searches :
          LET a == searches[sid]
              b == searches'[sid]
          IN  /\ (a.pc # "answer" /\ b.pc = "answer") =>
                   /\ a.pc = "search" /\ a.call.phase = "request"
                   /\ ~a.aborted
                   /\ Len(b.chunks) >= 1
                   /\ b.chunks = store'.searchResults
              /\ (a.pc = "answer" /\ b.pc = "answer") => b.chunks = a.chunks
              /\ a.pc = "done" => (b.pc = "done" /\ b.call = IdleCall)
              /\ (a.pc = "search" /\ a.aborted) => b.pc # "answer"
              /\ b.outcome \in {"search_failed", "empty", "search_discarded"} =>
                   (a.pc # "answer" /\ b.call.url # "/llm/answer")]_vars

\* an /llm/answer request is in flight with the stored result list
AnswerOnlyAfterResultsWitness ==
  \E sid \in DOMAIN searches :
    /\ searches[sid].pc = "answer"
    /\ searches[sid].call.url = "/llm/answer"
    /\ searches[sid].call.inflight
    /\ Len(searches[sid].chunks) = 2
    /\ searches[sid].chunks = store.searchResults

StartsWith(m, prefix) == ~m.null /\ Len(m.text) >= 1 /\ m.text[1] = prefix

\* sid's handler returns in this step and its component is still mounted
Returns(sid) ==
  /\ searches[sid].pc # "done"
  /\ searches'[sid].pc = "done"
  /\ ~searches[sid].stale

ResultsClearedBeforeSearch ==
  /\ \A sid \in DOMAIN searches :
       (searches[sid].pc = "search" /\ ~searches[sid].aborted) =>
         store.searchResults = <<>>
  /\ \A i \in 1..Len(store.searchResults) :
       store.searchResults[i].sid = Len(searches)

\* the second search awaits /search after the cancelled first one, which had
\* stored its results, has seen its last request come back
ResultsClearedBeforeSearchWitness ==
  /\ Len(searches) = 2
  /\ searches[1].outcome \in {"answer_discarded", "answer_failed"}
  /\ searches[1].aborted
  /\ searches[2].pc = "search"
  /\ ~searches[2].aborted
  /\ store.searchResults = <<>>

\* the Cancel button acts in this step: the stored controller is aborted
\* while its handler is still awaiting and its component stays mounted
Cancels ==
  /\ abortController # 0
  /\ ~searches[abortController].aborted
  /\ searches'[abortController].aborted
  /\ searches'[abortController].pc = searches[abortController].pc
  /\ ~searches'[abortController].stale

\* the submit button is enabled
CanSubmit(state) == ~state.isSearching /\ ~IsWhitespaceOnly(state.currentQuery)

MaxReloads == 1

ConnectionError == Str(<<"Backend is not accessible at http://localhost:8000">>)

Doc(path) == [file_path |-> path]

\* the values the setters are called with (fractions in hundredths)
SetterInputs ==
  [activeTab |-> Tabs,
   error |-> {Null, ConnectionError},
   documents |-> {<<>>, <<Doc("uploads/a.pdf")>>},
   searchResults |-> {<<>>, <<Result(1, 1)>>},
   currentQuery |-> {<<>>, <<"a">>},
   currentAnswer |-> {Null, AnswerText(1)},
   stats |-> {"null", "stats"},
   chunkSize |-> {1000, 500},
   chunkOverlap |-> {200, 50},
   searchK |-> {5, 10},
   scoreThreshold |-> {0, 50},
   temperature |-> {70, 0},
   maxTokens |-> {2048, 256},
   selectedModel |-> {"mixtral-8x7b-32768", "llama3-70b-8192"},
   backendConnected |-> BOOLEAN,
   isSearching |-> BOOLEAN]

outsideStore == <<call, tabVars, uploadVars, restVars>>

\* set({key: value}) of one of the store's plain setters
StoreSet(key) ==
  /\ \E v \in SetterInputs[key] :
       /\ v # store[key]
       /\ Commit([store EXCEPT ![key] = v])
  /\ UNCHANGED <<outsideStore, reloads>>

setActiveTab == StoreSet("activeTab")

setError == StoreSet("error")

setDocuments == StoreSet("documents")

setSearchResults == StoreSet("searchResults")

setCurrentQuery == StoreSet("currentQuery")

setCurrentAnswer == StoreSet("currentAnswer")

setStats == StoreSet("stats")

setChunkSize == StoreSet("chunkSize")

setChunkOverlap == StoreSet("chunkOverlap")

setSearchK == StoreSet("searchK")

setScoreThreshold == StoreSet("scoreThreshold")

setTemperature == StoreSet("temperature")

setMaxTokens == StoreSet("maxTokens")

setSelectedModel == StoreSet("selectedModel")

setBackendConnected == StoreSet("backendConnected")

setIsSearching == StoreSet("isSearching")

clearQueryState ==
  /\ Commit([store EXCEPT !.currentQuery = <<>>, !.currentAnswer = Null,
                          !.searchResults = <<>>])
  /\ UNCHANGED <<outsideStore, reloads>>

\* The page is loaded again: the store is created from its initial state,
\* persist lays the snapshot over it and writes the snapshot back.
Reload ==
  /\ reloads < MaxReloads
  /\ reloads' = reloads + 1
  /\ Commit(Rehydrate(localStorage))
  /\ UNCHANGED outsideStore

NextStore ==
  \/ setActiveTab
  \/ setError
  \/ setDocuments
  \/ setSearchResults
  \/ setCurrentQuery
  \/ setCurrentAnswer
  \/ setStats
  \/ setChunkSize
  \/ setChunkOverlap
  \/ setSearchK
  \/ setScoreThreshold
  \/ setTemperature
  \/ setMaxTokens
  \/ setSelectedModel
  \/ setBackendConnected
  \/ setIsSearching
  \/ clearQueryState
  \/ Reload

SpecStore == Init /\ [][NextStore]_vars

\* the keys documented as persisted, and the fields documented as not persisted
ClaimedPersisted ==
  {"activeTab", "chunkSize", "chunkOverlap", "searchK", "scoreThreshold",
   "temperature", "maxTokens", "selectedModel"}

ClaimedTransient ==
  {"searchResults", "currentQuery", "currentAnswer", "documents", "stats",
   "error", "backendConnected", "isSearching"}

\* C10: the snapshot in localStorage holds exactly the eight persisted keys,
\* each with the value last set; a reload gives these keys the values they
\* had before it and every other key its initial value.
SnapshotRoundTrip ==
  /\ [](localStorage.present =>
          /\ DOMAIN localStorage.state = ClaimedPersisted
          /\ \A k \in ClaimedPersisted : localStorage.state[k] = store[k])
  /\ [][reloads' # reloads =>
          /\ \A k \in ClaimedPersisted : store'[k] = store[k]
          /\ \A k \in ClaimedTransient :
               store'[k] = (CASE k = "searchResults" -> <<>>
                              [] k = "currentQuery" -> <<>>
                              [] k = "currentAnswer" -> Null
                              [] k = "documents" -> <<>>
                              [] k = "stats" -> "null"
                              [] k = "error" -> Null
                              [] k = "backendConnected" -> FALSE
                              [] k = "isSearching" -> FALSE)]_vars

\* after a reload the settings are the ones chosen before it and the query
\* state is back to its initial values
SnapshotRoundTripWitness ==
  /\ reloads = 1
  /\ store.searchK = 10 /\ store.activeTab = "analytics"
  /\ store.selectedModel = "llama3-70b-8192"
  /\ store.currentQuery = <<>> /\ store.searchResults = <<>>
  /\ ~store.isSearching
  /\ localStorage.state.searchK = 10

(***************************************************************************)
(* SpecUpload: FileUploadComponent                                         *)
(***************************************************************************)
\* files handed to the component in one behaviour
MaxFiles == 3

SizeLimit == 100 * 1024 * 1024

File(name, size) == [name |-> name, size |-> size]

FileAtLimit == File(<<"a", "PDF">>, SizeLimit)

FileOverLimit == File(<<"b", "pdf">>, SizeLimit + 1)

FileSmall == File(<<"notes", "v2", "txt">>, 2048)

FileExe == File(<<"setup", "exe">>, 1024)

FileHtml == File(<<"page", "html">>, SizeLimit)

\* what the user picks or drops at once
SelectionInputs ==
  { <<FileAtLimit>>, <<FileOverLimit, FileAtLimit>>,
    <<FileExe, FileSmall>>, <<FileHtml>> }

\* response.data of GET /documents/formats: the extensions of its formats,
\* or no formats field
FormatsResponses ==
  { [hasFormats |-> TRUE, formats |-> <<".PDF", ".txt", ".Html">>],
    [hasFormats |-> FALSE, formats |-> <<>>] }

\* the outcomes of POST /documents/upload
UploadOutcomes ==
  { [rejected |-> FALSE, success |-> TRUE, hasDocument |-> TRUE, err |-> NoError],
    [rejected |-> FALSE, success |-> FALSE, hasDocument |-> FALSE, err |-> NoError],
    [rejected |-> FALSE, success |-> TRUE, hasDocument |-> FALSE, err |-> NoError],
    [rejected |-> TRUE, success |-> FALSE, hasDocument |-> FALSE,
     err |-> ErrTimeout] }

outsideUpload == <<call, tabVars, reloads, restVars>>

\* loadFormats: the fetch resolved with a list
LoadFormatsOk ==
  /\ formatsLoading
  /\ formatsLoading' = FALSE
  /\ \E data \in FormatsResponses :
       supportedFormats' = IF data.hasFormats THEN data.formats ELSE supportedFormats
  /\ UNCHANGED <<store, localStorage, files, isUploading, selected, batches, requested,
               uploadLog, timers, retryLog, dragVars, outsideUpload>>

\* loadFormats: the fetch failed
LoadFormatsFails ==
  /\ formatsLoading
  /\ formatsLoading' = FALSE
  /\ supportedFormats' = DEFAULT_FORMATS
  /\ UNCHANGED <<store, localStorage, files, isUploading, selected, batches, requested,
               uploadLog, timers, retryLog, dragVars, outsideUpload>>

\* setFiles(prev => prev.map(f => f.file === file ? {...f, status: "uploading"} : f))
MarkUploading(queue, id) ==
  [i \in DOMAIN queue |->
     IF queue[i].id = id THEN [queue[i] EXCEPT !.status = "uploading"] ELSE queue[i]]

\* ... ? {...f, progress: 100, status: "success"} : f
MarkSuccess(queue, id) ==
  [i \in DOMAIN queue |->
     IF queue[i].id = id
     THEN [queue[i] EXCEPT !.status = "success", !.progress = 100]
     ELSE queue[i]]

\* ... ? {...f, status: "error", error: errorMsg} : f
MarkError(queue, id, errorMsg) ==
  [i \in DOMAIN queue |->
     IF queue[i].id = id
     THEN [queue[i] EXCEPT !.status = "error", !.error = errorMsg]
     ELSE queue[i]]

\* const progressInterval = setInterval(..., 300) of the iteration for id
setInterval(ts, id) == Append(ts, [id |-> id, running |-> TRUE])

\* clearInterval(progressInterval)
clearInterval(ts, n) == [ts EXCEPT ![n].running = FALSE]

InQueue(queue, id) == \E i \in DOMAIN queue : queue[i].id = id

\* handleFilesSelected(selectedFiles) with the supportedFormats that the
\* handler's closure holds; via tells how the files came
handleFilesSelected(sel, formats, via) ==
  LET base == Len(selected)
      ok(i) == validateFile(sel[i], formats)
      \* selectedFiles.filter(validateFile), as positions of the selection
      kept[n \in 0..Len(sel)] ==
        IF n = 0 THEN <<>>
        ELSE IF ok(n) THEN Append(kept[n - 1], n) ELSE kept[n - 1]
      valid == kept[Len(sel)]
      ids == [k \in 1..Len(valid) |-> base + valid[k]]
      newFiles == [k \in 1..Len(ids) |->
                     [id |-> ids[k], status |-> "pending", progress |-> 0, error |-> ""]]
  IN  /\ selected' = selected \o
           [i \in 1..Len(sel) |->
              [file |-> sel[i], via |-> via, formats |-> formats,
               loaded |-> supportedFormats, selection |-> base]]
      /\ IF Len(valid) > 0
         THEN /\ files' = MarkUploading(files \o newFiles, ids[1])
              /\ isUploading' = TRUE
              /\ timers' = setInterval(timers, ids[1])
              /\ batches' = batches \cup
                             {[ids |-> ids, idx |-> 1, timer |-> Len(timers) + 1]}
              /\ requested' = requested \cup {ids[1]}
         ELSE UNCHANGED <<files, isUploading, batches, requested, timers>>

\* <input type="file" onChange>: the handler of the current render
handleInputChange ==
  /\ \E sel \in SelectionInputs :
       /\ Len(selected) + Len(sel) <= MaxFiles
       /\ handleFilesSelected(sel, supportedFormats, "input")
  /\ UNCHANGED <<store, localStorage, supportedFormats, formatsLoading, uploadLog,
                 retryLog, dragVars, outsideUpload>>

\* onDrop: setIsDragActive(false), dragCounter.current = 0, and the drag is
\* over; useCallback(..., []) keeps the handleFilesSelected of the first
\* render, whose validateFile sees the initial supportedFormats
handleDrop ==
  /\ isDragActive' = FALSE
  /\ dragCounter' = 0
  /\ dragDepth' = 0
  /\ \E sel \in SelectionInputs :
       /\ Len(selected) + Len(sel) <= MaxFiles
       /\ handleFilesSelected(sel, DEFAULT_FORMATS, "drop")
  /\ UNCHANGED <<store, localStorage, supportedFormats, formatsLoading, uploadLog,
                 retryLog, outsideUpload>>

\* error.response?.data?.message || error.message || "Failed to upload file"
uploadErrorMessage(out) ==
  IF out.rejected
  THEN IF out.err.msg # "" THEN out.err.msg ELSE "Request failed"
  ELSE "Upload failed"

\* an upload that counts as done as soon as the response says success
uploadSucceededWithoutDocument(out) == ~out.rejected /\ out.success

\* the request resolved and response.data.success && response.data.document
uploadSucceeded(out) == ~out.rejected /\ out.success /\ out.hasDocument

\* the awaited apiService.uploadFile of a batch settles; the loop goes on
UploadSettles ==
  /\ \E b \in batches, out \in UploadOutcomes :
       LET id == b.ids[b.idx]
           good == uploadSucceeded(out)
           q1 == IF good THEN MarkSuccess(files, id)
                 ELSE MarkError(files, id, uploadErrorMessage(out))
           last == b.idx = Len(b.ids)
           \* clearInterval follows the await: a rejection skips it
           t1 == IF out.rejected THEN timers ELSE clearInterval(timers, b.timer)
       IN  /\ IF good
              THEN Commit([store EXCEPT !.documents =
                             Append(@, Doc(selected[id].file.name))])
              ELSE UNCHANGED <<store, localStorage>>
           /\ files' = IF last THEN q1 ELSE MarkUploading(q1, b.ids[b.idx + 1])
           /\ timers' = IF last THEN t1 ELSE setInterval(t1, b.ids[b.idx + 1])
           /\ batches' = (batches \ {b}) \cup
                           (IF last THEN {}
                            ELSE {[b EXCEPT !.idx = @ + 1, !.timer = Len(timers) + 1]})
           /\ isUploading' = IF last THEN FALSE ELSE isUploading
           /\ requested' = IF last THEN requested ELSE requested \cup {b.ids[b.idx + 1]}
           /\ uploadLog' = Append(uploadLog, [id |-> id, out |-> out])
  /\ UNCHANGED <<supportedFormats, formatsLoading, selected, retryLog, dragVars,
                 outsideUpload>>

NextUpload ==
  \/ LoadFormatsOk
  \/ LoadFormatsFails
  \/ handleInputChange
  \/ handleDrop
  \/ UploadSettles

SpecUpload == Init /\ [][NextUpload]_vars


\* the file id passed validateFile: it is in a running batch or was sent
Accepted(id) ==
  \/ id \in requested
  \/ \E b \in batches : \E k \in DOMAIN b.ids : b.ids[k] = id

\* the file id never reached the queue or the network
Rejected(id) ==
  /\ ~InQueue(files, id)
  /\ ~Accepted(id)

MaxChecks == 4

outsideHealth == <<call, tabVars, uploadVars, navVars, docVars, analyticsVars>>

\* The effect's dependency backendConnected changed: the cleanup of the old
\* effect sets its isMounted to false, the new effect checks immediately.
EffectRerun(list, connected) ==
  Append([i \in DOMAIN list |-> [list[i] EXCEPT !.live = FALSE]], NewCheck(connected))

\* setInterval(checkBackendHealth, 30000) fires for the effect in place
HealthInterval ==
  /\ Len(checks) < MaxChecks
  /\ checks' = Append(checks, NewCheck(store.backendConnected))
  /\ UNCHANGED <<store, localStorage, reloads, outsideHealth>>

\* a success branch that leaves the error in place
onHealthyKeepsError(state) == [state EXCEPT !.backendConnected = TRUE]

\* setBackendConnected(true); setError(null)
onHealthy(state) == [state EXCEPT !.backendConnected = TRUE, !.error = Null]

\* await apiService.checkHealth() resolved
HealthOk ==
  /\ \E i \in DOMAIN checks :
       /\ checks[i].pc = "pending"
       /\ LET done == [checks EXCEPT ![i].pc = "ok"]
          IN  IF checks[i].live /\ ~checks[i].connected
              THEN /\ Len(checks) < MaxChecks
                   /\ Commit(onHealthy(store))
                   /\ checks' = IF store.backendConnected THEN done
                                ELSE EffectRerun(done, TRUE)
              ELSE /\ checks' = done
                   /\ UNCHANGED <<store, localStorage>>
  /\ UNCHANGED <<reloads, outsideHealth>>

\* a failure branch that leaves backendConnected as it was
onUnreachableKeepsConnected(state) == [state EXCEPT !.error = ConnectionError]

\* setBackendConnected(false); setError("Backend is not accessible at ...")
onUnreachable(state) ==
  [state EXCEPT !.backendConnected = FALSE, !.error = ConnectionError]

\* await apiService.checkHealth() rejected
HealthFails ==
  /\ \E i \in DOMAIN checks :
       /\ checks[i].pc = "pending"
       /\ LET done == [checks EXCEPT ![i].pc = "failed"]
          IN  IF checks[i].live /\ checks[i].connected
              THEN /\ Len(checks) < MaxChecks
                   /\ Commit(onUnreachable(store))
                   /\ checks' = IF store.backendConnected THEN EffectRerun(done, FALSE)
                                ELSE done
              ELSE /\ checks' = done
                   /\ UNCHANGED <<store, localStorage>>
  /\ UNCHANGED <<reloads, outsideHealth>>

\* the Dismiss button of the connection error view: setError(null)
DismissConnectionError ==
  /\ Truthy(store.error)
  /\ Commit([store EXCEPT !.error = Null])
  /\ UNCHANGED <<checks, reloads, outsideHealth>>

\* the Retry Connection button: window.location.reload(); the page's pending
\* checks are gone with it and the new page checks immediately
RetryConnection ==
  /\ Truthy(store.error)
  /\ reloads < MaxReloads
  /\ Len(checks) < MaxChecks
  /\ reloads' = reloads + 1
  /\ Commit(Rehydrate(localStorage))
  /\ checks' = Append([i \in DOMAIN checks |->
                         [checks[i] EXCEPT !.live = FALSE,
                                           !.pc = IF @ = "pending" THEN "gone" ELSE @]],
                      FirstCheck)
  /\ UNCHANGED outsideHealth

NextHealth ==
  \/ HealthInterval
  \/ HealthOk
  \/ HealthFails
  \/ DismissConnectionError
  \/ RetryConnection

SpecHealth == Init /\ [][NextHealth]_vars

\* the check i has just come back rejected, in the page that started it
HealthCheckFailed(i) ==
  /\ i \in DOMAIN checks
  /\ checks[i].pc = "pending"
  /\ checks[i].live
  /\ checks'[i].pc = "failed"

\* C11: whenever a health check fails, backendConnected is false afterwards
\* and store.error is the connection error, for the first check of a page
\* as for the periodic ones.
FailedHealthCheckShowsError ==
  [][\A i \in DOMAIN checks :
       HealthCheckFailed(i) =>
         /\ ~store'.backendConnected
         /\ store'.error = ConnectionError]_vars

(***************************************************************************)
(* SpecNav: components/Navigation.tsx                                      *)
(***************************************************************************)
\* entries of the session history in one behaviour
MaxHistory == 3

\* the ?tab= parameter of a URL: absent, one of the tabs, or something else
TabParams == {"none", "ingestion", "query", "analytics", "settings"}

outsideNav == <<call, tabVars, uploadVars, healthVars, docVars, analyticsVars, reloads>>

\* useMemo: the tab named by the URL, "query" by default
activeTabOf(tabParam) ==
  IF tabParam \in {"ingestion", "query", "analytics"} THEN tabParam ELSE "query"

\* a handleClickOutside that does not spare the menu button
handleClickOutsideAnyButton(open, target) ==
  IF open /\ target # "menu" THEN FALSE ELSE open

\* handleClickOutside: mobileMenuOpen after a mouse-down on target; the
\* listener is registered, and the menu is in the document, only while open
handleClickOutside(open, target) ==
  IF open /\ target # "menu" /\ target # "button" THEN FALSE ELSE open

\* handleEscape: the listener is registered only while the menu is open
handleEscape(open) == IF open THEN FALSE ELSE open

\* a sync by the effect of app/page.tsx alone, which skips an
\* absent or invalid parameter
syncedTabValidOnly(tabParam, current) ==
  IF tabParam \in {"ingestion", "query", "analytics"} THEN tabParam ELSE current

\* store.activeTab once the effects of a URL have run: Navigation's
\* setActiveTab(activeTab) writes the tab derived from the URL whatever the
\* store held; the effect of app/page.tsx then finds nothing to change
syncedTab(tabParam, current) == activeTabOf(tabParam)

\* The URL became history'[position']: the effect of [pathname, searchParams]
\* closes the menu when they changed, the effect of [activeTab] syncs the store
UrlEffects(open, old, new) ==
  /\ mobileMenuOpen' = IF old # new THEN FALSE ELSE open
  /\ IF syncedTab(new, store.activeTab) # store.activeTab
     THEN Commit([store EXCEPT !.activeTab = syncedTab(new, store.activeTab)])
     ELSE UNCHANGED <<store, localStorage>>

\* router.push
Push(tabParam) ==
  /\ position < MaxHistory
  /\ history' = Append(SubSeq(history, 1, position), tabParam)
  /\ position' = position + 1

\* a click on a tab, on its link in the mobile menu or in the desktop bar:
\* handleTabClick pushes the URL and calls setMobileMenuOpen(false), after
\* whatever the mouse-down before it did to the menu
TabClick ==
  /\ \E tab \in {"ingestion", "query", "analytics"}, target \in {"menu", "outside"} :
       /\ target = "menu" => mobileMenuOpen
       /\ Push(tab)
       /\ UrlEffects(FALSE, history[position], tab)
  /\ navEvent' = "tab click"
  /\ UNCHANGED outsideNav

\* browser back / forward
HistoryGo ==
  /\ \E p \in DOMAIN history :
       /\ p # position
       /\ position' = p
       /\ UrlEffects(mobileMenuOpen, history[position], history[p])
       /\ navEvent' = IF history[p] # history[position] THEN "url change" ELSE "same url"
  /\ UNCHANGED <<history, outsideNav>>

\* the address bar: a URL with another tab parameter is entered in the page
UrlEdited ==
  /\ \E tabParam \in TabParams :
       /\ tabParam # history[position]
       /\ Push(tabParam)
       /\ UrlEffects(mobileMenuOpen, history[position], tabParam)
  /\ navEvent' = "url change"
  /\ UNCHANGED outsideNav

\* The page is loaded at a URL (a reload, a bookmark, the address bar): the
\* store is created from localStorage, Navigation mounts with the menu
\* closed and the effects of the URL run.
PageLoad ==
  /\ \E tabParam \in TabParams :
       /\ IF tabParam = history[position]
          THEN UNCHANGED <<history, position>>
          ELSE Push(tabParam)
       /\ Commit([Rehydrate(localStorage) EXCEPT
                   !.activeTab = syncedTab(tabParam, Rehydrate(localStorage).activeTab)])
  /\ mobileMenuOpen' = FALSE
  /\ navEvent' = "page load"
  /\ UNCHANGED outsideNav

\* keydown of Escape
EscapeKey ==
  /\ mobileMenuOpen' = handleEscape(mobileMenuOpen)
  /\ navEvent' = IF mobileMenuOpen THEN "escape while open" ELSE "escape"
  /\ UNCHANGED <<history, position, store, localStorage, outsideNav>>

\* mousedown somewhere, with no click handler of Navigation following
MouseDown ==
  /\ \E target \in {"menu", "outside"} :
       /\ target = "menu" => mobileMenuOpen
       /\ mobileMenuOpen' = handleClickOutside(mobileMenuOpen, target)
       /\ navEvent' = IF target = "outside" THEN "mousedown outside" ELSE "mousedown menu"
  /\ UNCHANGED <<history, position, store, localStorage, outsideNav>>

\* a click on the menu button: the mouse-down on it, the render that follows,
\* then onClick={() => setMobileMenuOpen(!mobileMenuOpen)}
MenuButtonClick ==
  /\ mobileMenuOpen' = ~handleClickOutside(mobileMenuOpen, "button")
  /\ navEvent' = "button click"
  /\ UNCHANGED <<history, position, store, localStorage, outsideNav>>

NextNav ==
  \/ TabClick
  \/ HistoryGo
  \/ UrlEdited
  \/ PageLoad
  \/ EscapeKey
  \/ MouseDown
  \/ MenuButtonClick

SpecNav == Init /\ [][NextNav]_vars

\* C12: the mobile menu is closed after a tab click, a change of the URL,
\* an Escape press while it was open and a mouse-down outside the menu and
\* its button; a click on the menu button flips it exactly once.
MobileMenuCloses ==
  /\ [](navEvent \in {"tab click", "url change", "escape while open", "mousedown outside"}
          => ~mobileMenuOpen)
  /\ [][navEvent' = "button click" => mobileMenuOpen' = ~mobileMenuOpen]_vars

\* Escape was pressed while the menu was open, on the analytics tab
MobileMenuClosesWitness ==
  /\ navEvent = "escape while open"
  /\ ~mobileMenuOpen
  /\ history = <<"none", "analytics">>
  /\ store.activeTab = "analytics"


\* the response of a settled upload: success = true and a document in it
CarriesDocument(out) == ~out.rejected /\ out.success /\ out.hasDocument

\* C13: when the upload of a file settles, the returned document is appended
\* to store.documents and the file becomes 'success' with progress 100
\* exactly when the response has success = true and a document; otherwise
\* the file becomes 'error' with a message and store.documents is unchanged.
UploadOutcomeDecidesStatus ==
  [][Len(uploadLog') > Len(uploadLog) =>
       LET e == uploadLog'[Len(uploadLog')]
       IN  \A i \in DOMAIN files' :
             files'[i].id = e.id =>
               IF CarriesDocument(e.out)
               THEN /\ files'[i].status = "success"
                    /\ files'[i].progress = 100
                    /\ Len(store'.documents) = Len(store.documents) + 1
                    /\ store'.documents[Len(store'.documents)].file_path =
                         selected[e.id].file.name
                    /\ SubSeq(store'.documents, 1, Len(store.documents)) = store.documents
               ELSE /\ files'[i].status = "error"
                    /\ files'[i].error # ""
                    /\ store'.documents = store.documents]_vars

\* one file was answered with success but no document and is in error, the
\* next one was answered with a document and is in the store
UploadOutcomeDecidesStatusWitness ==
  /\ Len(uploadLog) = 2
  /\ ~uploadLog[1].out.rejected /\ uploadLog[1].out.success
  /\ ~uploadLog[1].out.hasDocument
  /\ CarriesDocument(uploadLog[2].out)
  /\ Len(store.documents) = 1
  /\ \E i, j \in DOMAIN files :
       /\ files[i].id = uploadLog[1].id /\ files[i].status = "error"
       /\ files[j].id = uploadLog[2].id /\ files[j].status = "success"
       /\ files[j].progress = 100

(***************************************************************************)
(* SpecDocs: DocumentIngestionTab, the list of processed documents         *)
(***************************************************************************)
\* documents in the list at once
MaxDocs == 3

\* handleDelete invocations in one behaviour
MaxDeletes == 2

\* response.data.document of the uploads: the file a.pdf uploaded once or
\* again, and the file b.txt
DocInputs == {Doc("uploads/a.pdf"), Doc("uploads/b.txt")}

outsideDocs ==
  <<call, abortController, queryError, answerSources, searches, uploadVars,
    healthVars, navVars, analyticsVars, reloads>>

\* a handler that drops the document whatever the request came to
deleteRemovesAlways(ok) == TRUE

\* removeDocument is called in the try block, after the awaited request
deleteRemoves(ok) == ok

\* state.documents.filter((d) => d.file_path !== filePath)
removeDocument(state, filePath) ==
  [state EXCEPT !.documents = SelectSeq(@, LAMBDA d : d.file_path # filePath)]

\* addDocument(response.data.document) of an upload that succeeded
addDocument ==
  /\ Len(store.documents) < MaxDocs
  /\ \E doc \in DocInputs : Commit([store EXCEPT !.documents = Append(@, doc)])
  /\ UNCHANGED <<toast, deletes, outsideDocs>>

\* the delete button of a listed document: DELETE /search/delete is issued
handleDelete ==
  /\ Len(deletes) < MaxDeletes
  /\ \E i \in DOMAIN store.documents :
       deletes' = Append(deletes, [filePath |-> store.documents[i].file_path,
                                   pc |-> "pending"])
  /\ UNCHANGED <<store, localStorage, toast, outsideDocs>>

\* handleDelete after the await: the try block goes on or the catch runs
DeleteSettles ==
  /\ \E i \in DOMAIN deletes, ok \in BOOLEAN :
       /\ deletes[i].pc = "pending"
       /\ deletes' = [deletes EXCEPT ![i].pc = IF ok THEN "ok" ELSE "failed"]
       /\ IF deleteRemoves(ok)
          THEN Commit(removeDocument(store, deletes[i].filePath))
          ELSE UNCHANGED <<store, localStorage>>
       /\ toast' = IF ok THEN "Document removed from vector store"
                   ELSE "Failed to delete document"
  /\ UNCHANGED outsideDocs

NextDocs ==
  \/ addDocument
  \/ handleDelete
  \/ DeleteSettles

SpecDocs == Init /\ [][NextDocs]_vars

\* the documents of list whose path is not filePath
Without(list, filePath) == SelectSeq(list, LAMBDA d : d.file_path # filePath)

\* C14: a document leaves store.documents only in the step in which the
\* DELETE request for its file_path succeeds; when the request fails the
\* list is unchanged and the error toast is shown.
DeleteOnlyAfterSuccess ==
  [][/\ \A i \in DOMAIN deletes :
          (deletes[i].pc = "pending" /\ deletes'[i].pc = "failed") =>
             /\ store'.documents = store.documents
             /\ toast' = "Failed to delete document"
     /\ \A i \in DOMAIN deletes :
          (deletes[i].pc = "pending" /\ deletes'[i].pc = "ok") =>
             store'.documents = Without(store.documents, deletes[i].filePath)
     /\ (\E k \in DOMAIN store.documents :
           \A j \in DOMAIN store'.documents : store'.documents[j] # store.documents[k])
          => \E i \in DOMAIN deletes :
               /\ deletes[i].pc = "pending" /\ deletes'[i].pc = "ok"
               /\ \A k \in DOMAIN store.documents :
                    (\A j \in DOMAIN store'.documents :
                       store'.documents[j] # store.documents[k])
                      => store.documents[k].file_path = deletes[i].filePath]_vars

\* one delete failed and left its document, another one removed b.txt
DeleteOnlyAfterSuccessWitness ==
  /\ Len(deletes) = 2
  /\ deletes[1].pc = "failed" /\ deletes[1].filePath = "uploads/a.pdf"
  /\ deletes[2].pc = "ok" /\ deletes[2].filePath = "uploads/b.txt"
  /\ store.documents = <<Doc("uploads/a.pdf")>>

\* C15: store.documents never holds two entries with the same file_path.
DocumentPathsUnique ==
  \A i, j \in DOMAIN store.documents :
    store.documents[i].file_path = store.documents[j].file_path => i = j

(***************************************************************************)
(* SpecCleanup: KnowledgeAnalyticsTab, storage cleanup                     *)
(***************************************************************************)
\* handleCleanupOldFiles invocations in one behaviour
MaxCleanups == 2

Request(method, url) == [method |-> method, url |-> url]

\* a cleanup that clears the vector store
cleanupOldFilesClearsStore == Request("DELETE", "/search/clear")

\* apiService.cleanupOldFiles
cleanupOldFiles == Request("POST", "/search/storage/cleanup")

\* apiService.getStorageInfo
getStorageInfo == Request("GET", "/search/storage")

\* apiService.getVectorStoreStats
getVectorStoreStats == Request("GET", "/search/stats")

\* what GET /search/stats and GET /search/storage come to: the catch of
\* fetchStats and fetchStorageInfo stores null
StatsOutcomes == {"null", "stats"}

StorageOutcomes == {"null", "empty", "files"}

outsideCleanup ==
  <<call, abortController, queryError, answerSources, searches, uploadVars,
    healthVars, navVars, docVars, reloads>>

\* AppContent renders <KnowledgeAnalyticsTab /> with activeTab === "analytics"
AnalyticsMounted(state) == state.activeTab = "analytics" /\ ~Truthy(state.error)

\* the Analytics tab is opened: a new KnowledgeAnalyticsTab mounts, loadData runs
OpenAnalytics ==
  /\ ~AnalyticsMounted(store)
  /\ ~Truthy(store.error)
  /\ Commit([store EXCEPT !.activeTab = "analytics"])
  /\ analytics' = FreshAnalytics
  /\ UNCHANGED <<cleanups, toast, outsideCleanup>>

\* another tab is opened: KnowledgeAnalyticsTab unmounts, its state is gone
\* and the setters of its pending handlers do nothing any more
LeaveAnalytics ==
  /\ AnalyticsMounted(store)
  /\ \E t \in {"query", "ingestion"} : Commit([store EXCEPT !.activeTab = t])
  /\ analytics' = FreshAnalytics
  /\ cleanups' = [i \in DOMAIN cleanups |-> [cleanups[i] EXCEPT !.stale = TRUE]]
  /\ UNCHANGED <<toast, outsideCleanup>>

\* loadData: Promise.all([fetchStats(), fetchStorageInfo()]) has settled
LoadDataSettles ==
  /\ AnalyticsMounted(store)
  /\ analytics.isLoading
  /\ \E st \in StatsOutcomes, si \in StorageOutcomes :
       analytics' = [analytics EXCEPT !.stats = st, !.storageInfo = si,
                                      !.isLoading = FALSE]
  /\ UNCHANGED <<store, localStorage, cleanups, toast, outsideCleanup>>

\* the refresh button, the Retry button or the 30 s interval: both fetches
Refresh ==
  /\ AnalyticsMounted(store)
  /\ ~analytics.isLoading
  /\ \E st \in StatsOutcomes, si \in StorageOutcomes :
       /\ <<st, si>> # <<analytics.stats, analytics.storageInfo>>
       /\ analytics' = [analytics EXCEPT !.stats = st, !.storageInfo = si]
  /\ UNCHANGED <<store, localStorage, cleanups, toast, outsideCleanup>>

\* the Cleanup button: rendered with stats and storageInfo.total_files > 0,
\* disabled={isCleaningUp}
handleCleanupOldFiles ==
  /\ AnalyticsMounted(store)
  /\ ~analytics.isLoading
  /\ analytics.stats # "null"
  /\ analytics.storageInfo = "files"
  /\ ~analytics.isCleaningUp
  /\ Len(cleanups) < MaxCleanups
  /\ analytics' = [analytics EXCEPT !.isCleaningUp = TRUE]
  /\ cleanups' = Append(cleanups, [pc |-> "cleanup", stale |-> FALSE,
                                   log |-> <<cleanupOldFiles>>])
  /\ UNCHANGED <<store, localStorage, toast, outsideCleanup>>

\* await apiService.cleanupOldFiles() resolved: toast, then fetchStorageInfo
CleanupOk ==
  /\ \E i \in DOMAIN cleanups :
       /\ cleanups[i].pc = "cleanup"
       /\ cleanups' = [cleanups EXCEPT ![i].pc = "storage",
                                       ![i].log = Append(@, getStorageInfo)]
  /\ toast' = "Cleanup complete"
  /\ UNCHANGED <<store, localStorage, analytics, outsideCleanup>>

\* await apiService.cleanupOldFiles() rejected: catch, finally
CleanupFails ==
  /\ \E i \in DOMAIN cleanups :
       /\ cleanups[i].pc = "cleanup"
       /\ cleanups' = [cleanups EXCEPT ![i].pc = "done"]
       /\ analytics' = IF cleanups[i].stale THEN analytics
                       ELSE [analytics EXCEPT !.isCleaningUp = FALSE]
  /\ toast' = "Cleanup failed"
  /\ UNCHANGED <<store, localStorage, outsideCleanup>>

\* await fetchStorageInfo() is over, fetchStats is called
CleanupStorageSettles ==
  /\ \E i \in DOMAIN cleanups, si \in StorageOutcomes :
       /\ cleanups[i].pc = "storage"
       /\ cleanups' = [cleanups EXCEPT ![i].pc = "stats",
                                       ![i].log = Append(@, getVectorStoreStats)]
       /\ analytics' = IF cleanups[i].stale THEN analytics
                       ELSE [analytics EXCEPT !.storageInfo = si]
  /\ UNCHANGED <<store, localStorage, toast, outsideCleanup>>

\* await fetchStats() is over: finally
CleanupStatsSettles ==
  /\ \E i \in DOMAIN cleanups, st \in StatsOutcomes :
       /\ cleanups[i].pc = "stats"
       /\ cleanups' = [cleanups EXCEPT ![i].pc = "done"]
       /\ analytics' = IF cleanups[i].stale THEN analytics
                       ELSE [analytics EXCEPT !.stats = st, !.isCleaningUp = FALSE]
  /\ UNCHANGED <<store, localStorage, toast, outsideCleanup>>

NextCleanup ==
  \/ OpenAnalytics
  \/ LeaveAnalytics
  \/ LoadDataSettles
  \/ Refresh
  \/ handleCleanupOldFiles
  \/ CleanupOk
  \/ CleanupFails
  \/ CleanupStorageSettles
  \/ CleanupStatsSettles
  \/ addDocument

SpecCleanup == Init /\ [][NextCleanup]_vars


\* the requests handleCleanupOldFiles may issue, in their order
CleanupRequests ==
  << Request("POST", "/search/storage/cleanup"), Request("GET", "/search/storage"),
     Request("GET", "/search/stats") >>

\* C16: handleCleanupOldFiles issues only POST /search/storage/cleanup, then
\* GET /search/storage and GET /search/stats, never a DELETE, and it leaves
\* store.documents unchanged.
CleanupLeavesIndexAlone ==
  /\ [](\A i \in DOMAIN cleanups :
          /\ Len(cleanups[i].log) <= Len(CleanupRequests)
          /\ \A n \in DOMAIN cleanups[i].log :
               /\ cleanups[i].log[n] = CleanupRequests[n]
               /\ cleanups[i].log[n].method # "DELETE")
  /\ [][cleanups' # cleanups => store'.documents = store.documents]_vars

\* a cleanup ran to its end, all three requests, next to a listed document
CleanupLeavesIndexAloneWitness ==
  /\ \E i \in DOMAIN cleanups :
       /\ cleanups[i].pc = "done"
       /\ ~cleanups[i].stale
       /\ cleanups[i].log = CleanupRequests
  /\ store.documents = <<Doc("uploads/a.pdf")>>

\* C17: at most one cleanup request is in flight.
AtMostOneCleanupInFlight ==
  Cardinality({i \in DOMAIN cleanups : cleanups[i].pc = "cleanup"}) <= 1


\* the queue entries whose POST /documents/upload is awaited
Uploading == {i \in DOMAIN files : files[i].status = "uploading"}

\* C18: at most one batch is being uploaded and at most one upload request
\* is in flight at any time, and isUploading is true whenever some file has
\* status 'uploading'.
UploadsAreSerial ==
  /\ Cardinality(batches) <= 1
  /\ Cardinality(Uploading) <= 1
  /\ Uploading # {} => isUploading


\* the handler of the search sid has not returned yet
Unsettled(sid) == searches[sid].pc # "done"

\* C19: once the requests of every started search have settled, isSearching
\* is false, also when the query tab was unmounted while a search was in
\* flight: isSearching is not left true without a search to end it.
SearchingOnlyWithLiveSearch ==
  store.isSearching => \E sid \in DOMAIN searches : Unsettled(sid)

\* C20: a non-empty currentAnswer belongs to the search submitted last, as
\* the stored results do: the answer of an earlier query is not kept next
\* to the cleared or new result list.
AnswerBelongsToLastSearch ==
  Truthy(store.currentAnswer) =>
    /\ store.currentAnswer = AnswerText(Len(searches))
    /\ \A i \in DOMAIN store.searchResults :
         store.searchResults[i].sid = Len(searches)

\* the searches whose handler is still awaiting a request and whose
\* controller has not been aborted
LiveSearches == {sid \in DOMAIN searches : Unsettled(sid) /\ ~searches[sid].aborted}

\* C21: while isSearching is true the textarea and the submit button are
\* disabled: no step taken with isSearching true starts a search or edits
\* the query; and at every moment at most one search with an unaborted
\* controller is in flight.
OneSearchAtATime ==
  /\ [][store.isSearching =>
          /\ Len(searches') = Len(searches)
          /\ store'.currentQuery = store.currentQuery]_vars
  /\ [](Cardinality(LiveSearches) <= 1)

\* a second search is in flight, submitted after the first one was
\* cancelled and before the first one's request came back
OneSearchAtATimeWitness ==
  /\ Len(searches) = 2
  /\ Unsettled(1) /\ searches[1].aborted
  /\ Unsettled(2) /\ ~searches[2].aborted
  /\ store.isSearching

\* the check i has just come back resolved
HealthCheckSucceeded(i) ==
  /\ i \in DOMAIN checks
  /\ checks[i].pc = "pending"
  /\ checks'[i].pc = "ok"

ErrorImpliesDisconnected ==
  /\ [](Truthy(store.error) => ~store.backendConnected)
  /\ [][(store'.error # store.error /\ store'.error # Null) =>
          ~store'.backendConnected]_vars
  /\ [][(~store.backendConnected /\ store'.backendConnected) =>
          store'.error = Null]_vars

\* a failed check has put the connection error on screen
ErrorImpliesDisconnectedWitness ==
  /\ \E i \in DOMAIN checks : checks[i].pc = "failed" /\ checks[i].connected
  /\ store.error = ConnectionError
  /\ ~store.backendConnected

\* the tab the current URL names: its ?tab= value when that is a tab,
\* "query" otherwise
UrlTab ==
  IF history[position] \in Tabs THEN history[position] ELSE "query"

MaxDragCount == 3

\* the drop zone and the elements nested in it that a pointer can be inside
MaxDragDepth == 2

\* handleDrag for an event of the given type: [counter, active] afterwards
handleDrag(type, counter, active) ==
  IF type = "dragenter" \/ type = "dragover"
  THEN [counter |-> counter + 1, active |-> TRUE]
  ELSE IF type = "dragleave"
       THEN [counter |-> counter - 1,
             active |-> IF counter - 1 = 0 THEN FALSE ELSE active]
       ELSE [counter |-> counter, active |-> active]

DragEvent(type) ==
  LET r == handleDrag(type, dragCounter, isDragActive)
  IN  /\ dragCounter' = r.counter
      /\ isDragActive' = r.active
      /\ UNCHANGED <<store, localStorage, supportedFormats, formatsLoading, files,
                     isUploading, selected, batches, requested, uploadLog, timers,
                     retryLog, outsideUpload>>

\* the dragged pointer enters the zone or an element inside it
DragEnter ==
  /\ dragDepth < MaxDragDepth
  /\ dragCounter < MaxDragCount
  /\ dragDepth' = dragDepth + 1
  /\ DragEvent("dragenter")

\* dragover fires again and again while the pointer is over the zone
DragOver ==
  /\ dragDepth > 0
  /\ dragCounter < MaxDragCount
  /\ dragDepth' = dragDepth
  /\ DragEvent("dragover")

\* the pointer leaves an element it had entered
DragLeave ==
  /\ dragDepth > 0
  /\ dragDepth' = dragDepth - 1
  /\ DragEvent("dragleave")

NextDrag ==
  \/ DragEnter
  \/ DragOver
  \/ DragLeave
  \/ handleDrop

SpecDrag == Init /\ [][NextDrag]_vars

\* C25: once every dragenter has been matched by a dragleave, and after a
\* drop, the drag counter is 0 and isDragActive is false.
DragLeftMeansInactive ==
  dragDepth = 0 => (dragCounter = 0 /\ ~isDragActive)

\* the progress timers that have been set and not cleared
RunningTimers == {n \in DOMAIN timers : timers[n].running}

\* C26: the progress timer of an upload is cleared when the upload's request
\* settles, whatever the outcome: with no upload in flight no progress
\* timer is running.
TimersClearedWhenIdle ==
  batches = {} => RunningTimers = {}

(***************************************************************************)
(* SpecQueue: the upload queue of FileUploadComponent with its progress    *)
(* timers and the Retry button                                             *)
(***************************************************************************)
\* clicks on Retry in one behaviour
MaxRetryClicks == 1

\* Math.random() * 40, in whole percent
ProgressSteps == {30}

\* file.name of the queue entry k
NameOf(queue, k) == selected[queue[k].id].file.name

\* the callback of a progress timer: the entry of its file moves on while
\* it is uploading, up to 90
ProgressTick ==
  /\ \E n \in DOMAIN timers, step \in ProgressSteps :
       /\ timers[n].running
       /\ files' =
            [k \in DOMAIN files |->
               IF files[k].id = timers[n].id /\ files[k].status = "uploading"
               THEN [files[k] EXCEPT
                       !.progress = IF @ + step > 90 THEN 90 ELSE @ + step]
               ELSE files[k]]
       /\ files' # files
  /\ UNCHANGED <<store, localStorage, supportedFormats, formatsLoading, isUploading,
                 selected, batches, requested, uploadLog, timers, retryLog, dragVars,
                 outsideUpload>>

\* retryUpload(fileName), from the Retry button of an entry in error:
\* files.find by name, the reset of every entry of that name, then
\* uploadFiles([fileToRetry]) up to its first await
retryUpload ==
  /\ Len(retryLog) < MaxRetryClicks
  /\ \E i \in DOMAIN files :
       /\ files[i].status = "error"
       /\ LET fileName == NameOf(files, i)
              named(k) == NameOf(files, k) = fileName
              fileToRetry == CHOOSE k \in DOMAIN files :
                               named(k) /\ \A j \in 1..(k - 1) : ~named(j)
              id == files[fileToRetry].id
              reset == [k \in DOMAIN files |->
                          IF named(k)
                          THEN [files[k] EXCEPT !.progress = 0, !.error = "",
                                                !.status = "pending"]
                          ELSE files[k]]
          IN  /\ files' = MarkUploading(reset, id)
              /\ isUploading' = TRUE
              /\ timers' = setInterval(timers, id)
              /\ batches' = batches \cup
                              {[ids |-> <<id>>, idx |-> 1, timer |-> Len(timers) + 1]}
              /\ requested' = requested \cup {id}
              /\ retryLog' = Append(retryLog, [clicked |-> files[i].id, uploaded |-> id])
  /\ UNCHANGED <<store, localStorage, supportedFormats, formatsLoading, selected,
                 uploadLog, dragVars, outsideUpload>>

NextQueue ==
  \/ handleInputChange
  \/ UploadSettles
  \/ ProgressTick
  \/ retryUpload

SpecQueue == Init /\ [][NextQueue]_vars

\* a Retry click is handled in this step
RetryClicked == Len(retryLog') = Len(retryLog) + 1

\* C27: Retry on a failed file leaves that file with progress 0 and no
\* error and uploads that file again; it changes no other entry of the queue
\* and requests no other file, whatever the names in the queue.
RetryTouchesOnlyItsFile ==
  [][RetryClicked =>
       LET r == retryLog'[Len(retryLog')]
       IN  /\ r.uploaded = r.clicked
           /\ \A k \in DOMAIN files :
                IF files[k].id = r.clicked
                THEN /\ files'[k].progress = 0
                     /\ files'[k].error = ""
                     /\ files'[k].status \in {"pending", "uploading"}
                ELSE files'[k] = files[k]]_vars

\* C28: a call that has settled has waited fewer backoff delays than it
\* issued requests, so none after its last request, and the n-th wait of a
\* call is 500 ms * 1.5^(n-1).
NoWaitAfterLastRequest ==
  /\ CallSettled(call) => Len(call.waits) < Len(call.log)
  /\ \A n \in DOMAIN call.waits :
       call.waits[n] = (500 * Pow(3, n - 1)) \div Pow(2, n - 1)

\* C29: two files equal in name and size, handed over while the same list
\* of supported formats was loaded, one dropped and one chosen through the
\* input, are both accepted or both rejected.
ValidationIndependentOfArrival ==
  \A i, j \in DOMAIN selected :
    ( /\ selected[i].file = selected[j].file
      /\ selected[i].loaded = selected[j].loaded
      /\ selected[i].via = "drop"
      /\ selected[j].via = "input" )
    => (Rejected(i) <=> Rejected(j))

\* the settled POST /documents/upload requests for the file id
RequestsFor(id) == {n \in DOMAIN uploadLog : uploadLog[n].id = id}

\* C30: a file is marked as failed after a transient error of its upload
\* request only when the request had been issued again before: a file in
\* error whose last request failed with a transient error has had at least
\* two requests.
TransientUploadErrorRetried ==
  \A k \in DOMAIN files :
    LET reqs == RequestsFor(files[k].id)
    IN  ( /\ files[k].status = "error"
          /\ reqs # {}
          /\ LET last == uploadLog[CHOOSE n \in reqs : \A m \in reqs : m <= n].out
             IN  last.rejected /\ IsTransient(last.err) )
        => Cardinality(reqs) >= 2

====
